---- MODULE Spec2Model ----
(***************************************************************************)
(* Conversation-turn engine of the MedicalBot web client                   *)
(* (src/frontend/script.js): the session state userData, the transcript    *)
(* chatMessages, the free-text controls, and the asynchronous sendMessage  *)
(* calls with their two suspension points (await fetch, await json).       *)
(***************************************************************************)
EXTENDS Integers, Sequences, FiniteSets, TLC

\* Bound of the model: number of sendMessage calls in one page session,
\* the bootstrap call included.
MaxTurns == 2

\* Bound of the specification SpecDeep, which follows three calls with few
\* response bodies.
MaxTurnsDeep == 3

(***************************************************************************)
(* JSON values.  Every value has the same shape so that any two can be     *)
(* compared: t is the JSON type, s the scalar's text, a the array entries. *)
(***************************************************************************)
JAbsent == [t |-> "absent", s |-> "", a |-> <<>>]
JNull == [t |-> "null", s |-> "", a |-> <<>>]
JStr(x) == [t |-> "str", s |-> x, a |-> <<>>]
JNum(x) == [t |-> "num", s |-> x, a |-> <<>>]
JMap == [t |-> "map", s |-> "", a |-> <<>>]
JArr(es) == [t |-> "arr", s |-> "", a |-> es]

\* JavaScript truthiness of a JSON value (the && and || tests of handleAction).
Truthy(v) ==
    CASE v.t = "absent" -> FALSE
      [] v.t = "null" -> FALSE
      [] v.t = "str" -> v.s # ""
      [] v.t = "num" -> v.s # "0"
      [] OTHER -> TRUE

IsArrayLike(v) == v.t \in {"arr", "map"}

\* Array.isArray
IsArray(v) == v.t = "arr"

\* An entry of an options array: a string, or an object with optional text
\* and value members ("<absent>" marks a member the object does not have).
Absent == "<absent>"
StrEntry(x) == [kind |-> "str", s |-> x, text |-> Absent, value |-> Absent]
ObjEntry(tx, vl) == [kind |-> "obj", s |-> "", text |-> tx, value |-> vl]
ObjectText == "[object Object]"

\* option.text || option, as assigned to button.textContent
Label(e) ==
    IF e.kind = "obj"
    THEN IF e.text # Absent /\ e.text # "" THEN e.text ELSE ObjectText
    ELSE e.s

\* option.value || option, as passed to sendMessage
Value(e) ==
    IF e.kind = "obj"
    THEN IF e.value # Absent /\ e.value # "" THEN e.value ELSE ObjectText
    ELSE e.s

(***************************************************************************)
(* Session state: a mapping; a key the mapping lacks is JAbsent.           *)
(***************************************************************************)
EmptyMap ==
    [state |-> JAbsent, options |-> JAbsent, doctors |-> JAbsent,
     available_dates |-> JAbsent, available_slots |-> JAbsent]

\* let userData = { state: null }
InitUserData == [EmptyMap EXCEPT !.state = JNull]

\* The data member of a response body: nil when the body has none.
NoData == [nil |-> TRUE, m |-> EmptyMap]
Data(m) == [nil |-> FALSE, m |-> m]

\* userData = data.data || {}  (the previous value is dropped)
MergeUserData(old, d) ==
    IF d.nil THEN old
    ELSE [k \in DOMAIN old |-> IF d.m[k].t = "absent" THEN old[k] ELSE d.m[k]]

NewUserData(old, d) == IF d.nil THEN EmptyMap ELSE d.m

(***************************************************************************)
(* The transcript: the children of chatMessages, in document order.        *)
(* cls is the element's class: "bot" (.bot-message), "typing"              *)
(* (.bot-message.typing-indicator), "user" (.user-message), "options"      *)
(* (.in-chat-options) or "error" (.error).  turn is the sendMessage call   *)
(* that created a typing indicator or an options container, 0 otherwise.   *)
(* Styling (opacity, cursor, scroll position) is not modelled.             *)
(***************************************************************************)
WelcomeMsg == "Welcome to the Medical Appointment Booking System!"
LoadingMsg == "Connecting to server..."
TypingText == "Typing..."
TimeoutText == "The server is taking too long to respond. Please check if the backend is running properly."
NetworkText == "Cannot connect to the server. Please make sure the backend is running at http://localhost:8000"
GenericText == "Sorry, there was an error processing your request."
\* (the source text starts with a warning sign)
NoBackendText == "Could not connect to the server. Please make sure the backend is running."
NoDepartmentText == "Error: No department specified. Please type your selection."
Sentinel == "Hello"

Element(cls, text, turn, buttons) ==
    [cls |-> cls, text |-> text, turn |-> turn, buttons |-> buttons]

\* A .chat-option-button: restart tells whether handleAction attached the
\* restart listener to it.
Button(e) ==
    [entry |-> e, disabled |-> FALSE, restart |-> FALSE, selected |-> FALSE]

RemoveAt(s, i) == [k \in 1..(Len(s) - 1) |-> IF k < i THEN s[k] ELSE s[k + 1]]

\* textContent = message: undefined and null become the empty string
TextContent(v) == IF v.t \in {"absent", "null"} THEN "" ELSE v.s

addBotMessage(c, message) == Append(c, Element("bot", message, 0, <<>>))

addUserMessage(c, message) == Append(c, Element("user", message, 0, <<>>))

\* The positions of the elements matching a class selector, in document order.
RECURSIVE Positions(_, _, _)
Positions(c, classes, from) ==
    IF from > Len(c) THEN <<>>
    ELSE IF c[from].cls \in classes
         THEN <<from>> \o Positions(c, classes, from + 1)
         ELSE Positions(c, classes, from + 1)

\* document.querySelectorAll('.chat-option-button').forEach(disable)
DisableAllButtons(c) ==
    [i \in 1..Len(c) |->
        [c[i] EXCEPT !.buttons =
            [j \in 1..Len(c[i].buttons) |-> [c[i].buttons[j] EXCEPT !.disabled = TRUE]]]]

\* addOptionsToChat(options): options.forEach throws a TypeError when options
\* is not an array, before the container is appended.
addOptionsToChat(c, options, turn) ==
    IF IsArray(options)
    THEN [chat |-> Append(c, Element("options", "", turn,
                      [j \in 1..Len(options.a) |-> Button(options.a[j])])),
          threw |-> FALSE]
    ELSE [chat |-> c, threw |-> TRUE]

\* restartButtons[restartButtons.length - 1].addEventListener('click', ...):
\* the last .chat-option-button of the document gets the restart listener.
AddRestartListener(c) ==
    LET withButtons == {i \in 1..Len(c) : Len(c[i].buttons) > 0} IN
    IF withButtons = {} THEN c
    ELSE LET i == CHOOSE x \in withButtons : \A y \in withButtons : y <= x
             j == Len(c[i].buttons)
         IN [c EXCEPT ![i].buttons[j].restart = TRUE]

NoYes == JArr(<<ObjEntry("No", "No"), ObjEntry("Yes", "Yes")>>)

YesNo == JArr(<<ObjEntry("Yes", "Yes"), ObjEntry("No", "No")>>)
CancelOrBook ==
    JArr(<<ObjEntry("Cancel Appointment", "cancel"),
           ObjEntry("Book New Appointment", "book new appointment")>>)
ConfirmCancel == JArr(<<ObjEntry("Yes, Cancel", "yes"), ObjEntry("No, Keep", "no")>>)
Departments ==
    JArr(<<StrEntry("Cardiology"), StrEntry("Neurology"), StrEntry("General Physician")>>)
RestartOptions == JArr(<<ObjEntry("Start New Conversation", Sentinel)>>)

KeepFreeText(inp) == inp

\* userInput.disabled = true; sendButton.disabled = true
DisableFreeText(inp) == TRUE

FallbackArm(c, inp, turn) ==
    [chat |-> addOptionsToChat(c, Departments, turn).chat, inputDisabled |-> inp,
     threw |-> FALSE]

\* No branch of handleAction matches (there is no final else): nothing changes.
DefaultArm(c, inp, turn) == [chat |-> c, inputDisabled |-> inp, threw |-> FALSE]

\* handleAction(action, data): the transcript and the free-text controls after
\* the dispatch, and whether it threw.  d is data.data of the response body.
handleAction(c, inp, action, d, turn) ==
    LET same == [chat |-> c, inputDisabled |-> inp, threw |-> FALSE]
        show(options) ==
            LET r == addOptionsToChat(c, options, turn)
            IN [chat |-> r.chat, inputDisabled |-> inp, threw |-> r.threw]
    IN
    IF action = "offer_booking" THEN show(YesNo)
    ELSE IF action = "show_existing_appointment" THEN show(CancelOrBook)
    ELSE IF action = "confirm_cancellation" THEN show(ConfirmCancel)
    ELSE IF action = "show_options" /\ ~d.nil /\ Truthy(d.m.options)
         THEN show(d.m.options)
    ELSE IF action = "request_department" THEN show(Departments)
    ELSE IF action = "request_doctor"
         THEN IF ~d.nil /\ Truthy(d.m.doctors) /\ IsArray(d.m.doctors)
              THEN show(d.m.doctors)
              ELSE [same EXCEPT
                      !.chat = Append(c, Element("error", NoDepartmentText, 0, <<>>))]
    ELSE IF action = "request_date" /\ ~d.nil /\ Truthy(d.m.available_dates)
         THEN show(d.m.available_dates)
    ELSE IF action = "request_time" /\ ~d.nil /\ Truthy(d.m.available_slots)
         THEN show(d.m.available_slots)
    ELSE IF action = "show_appointments" THEN show(CancelOrBook)
    ELSE IF action = "conversation_end"
         THEN LET r == addOptionsToChat(c, RestartOptions, turn)
              IN [chat |-> AddRestartListener(r.chat),
                  inputDisabled |-> DisableFreeText(inp), threw |-> r.threw]
    ELSE DefaultArm(c, inp, turn)

(***************************************************************************)
(* Errors caught by sendMessage, as the name and message the catch block   *)
(* reads.  AbortSignal.timeout aborts with a DOMException named            *)
(* TimeoutError.                                                           *)
(***************************************************************************)
TimeoutError == [name |-> "TimeoutError", message |-> "signal timed out"]
FetchFailed == [name |-> "TypeError", message |-> "Failed to fetch"]
HttpError == [name |-> "Error", message |-> "HTTP error! Status: 500"]
JsonSyntaxError == [name |-> "SyntaxError", message |-> "Unexpected token < in JSON"]
NotFoundError ==
    [name |-> "NotFoundError", message |-> "The node to be removed is not a child of this node."]
ForEachTypeError == [name |-> "TypeError", message |-> "options.forEach is not a function"]

\* The messages m of the model with m.includes('NetworkError') or
\* m.includes('Failed to fetch').
NetworkMessages == {"Failed to fetch", "NetworkError when attempting to fetch resource."}

\* The if/else chain of the catch block: the diagnostic text for an error.
DiagnosticText(error) ==
    IF error.name = "AbortError" THEN TimeoutText
    ELSE IF error.message \in NetworkMessages THEN NetworkText
    ELSE GenericText

\* document.querySelector('.typing-indicator'): the first one in the document;
\* it is removed if there is one.
RemoveFirstTyping(c) ==
    LET ps == Positions(c, {"typing"}, 1)
    IN IF Len(ps) > 0 THEN RemoveAt(c, ps[1]) ELSE c

\* The catch block of sendMessage.
catchBlock(c, error) == addBotMessage(RemoveFirstTyping(c), DiagnosticText(error))

\* The statements of checkBackendConnection after `await sendMessage("Hello")`:
\* the second to last .bot-message is removed if it is the loading message.
RemoveLoading(c) ==
    LET ps == Positions(c, {"bot", "typing"}, 1)
    IN IF Len(ps) > 1 /\ c[ps[Len(ps) - 1]].text = LoadingMsg
       THEN RemoveAt(c, ps[Len(ps) - 1])
       ELSE c

sendStartEcho(c, message, turn) ==
    Append(DisableAllButtons(addUserMessage(c, message)),
           Element("typing", TypingText, turn, <<>>))

\* The synchronous part of sendMessage(message), up to the fetch call.
sendStart(c, message, turn) ==
    LET c1 == IF message # Sentinel THEN addUserMessage(c, message) ELSE c
        c2 == DisableAllButtons(c1)
    IN Append(c2, Element("typing", TypingText, turn, <<>>))

(***************************************************************************)
(* Response bodies the server may return with a 2xx status.                *)
(***************************************************************************)
Body(response, action, d) == [response |-> response, action |-> action, data |-> d]

NoBody == Body(JAbsent, Absent, NoData)

S1 == [EmptyMap EXCEPT !.state = JStr("s1")]
S2 == [EmptyMap EXCEPT !.state = JStr("s2")]
TwoOptions == JArr(<<StrEntry("A"), ObjEntry("B", "b")>>)
EmptyMembers == JArr(<<ObjEntry("", "v"), ObjEntry("T", "")>>)

Bodies ==
    { Body(JStr("r"), Absent, Data(S1)),
      Body(JStr("r"), "offer_booking", Data(S2)),
      Body(JStr("r"), "show_options", Data([S1 EXCEPT !.options = TwoOptions])),
      Body(JStr("r"), "show_options", Data([S2 EXCEPT !.options = JMap])),
      Body(JStr("r"), "foo", Data([S2 EXCEPT !.options = TwoOptions])),
      Body(JStr("r"), "foo", NoData),
      Body(JStr("r"), "conversation_end", Data(S2)),
      Body(JStr("r"), "request_doctor", Data([S1 EXCEPT !.doctors = JArr(<<StrEntry("Dr")>>)])),
      Body(JStr("r"), "request_doctor", Data(S1)),
      Body(JStr("r"), "request_doctor", Data([S2 EXCEPT !.doctors = JMap])),
      Body(JStr("r"), "request_doctor", NoData),
      Body(JAbsent, Absent, Data(S1)),
      Body(JStr("r"), Absent, NoData),
      Body(JStr("r"), "show_options", Data([S1 EXCEPT !.options = EmptyMembers])),
      Body(JStr("r"), "offer_booking", NoData),
      Body(JStr("r"), "offer_booking",
           Data([S1 EXCEPT !.options = JMap, !.doctors = JArr(<<StrEntry("Dr")>>)])) }

\* What the user types in the input field, trimmed ("" is a blank input).
FreeTexts == {"hi", Sentinel, ""}

(***************************************************************************)
(* State.                                                                  *)
(*   loaded         the window load event has run initChat                 *)
(*   userData       the session state                                      *)
(*   inputDisabled  userInput.disabled and sendButton.disabled             *)
(*   chat           the transcript                                         *)
(*   calls          the sendMessage calls made so far, in call order: pc   *)
(*                  is "fetch" (awaiting fetch), "json" (awaiting          *)
(*                  response.json()) or "done"; message and request (the   *)
(*                  user_data serialised into the request body) are the    *)
(*                  call's locals, dropped when the call is done           *)
(* History variables, read by the properties only:                         *)
(*   pre            per call, how it was submitted and the state just      *)
(*                  before its submission (kept while the call is pending) *)
(*   last           the latest step: what happened, to which call, the     *)
(*                  state just before the step and, when the step ended a  *)
(*                  call, how the call ended                               *)
(*   ended          a conversation_end response has been processed and no  *)
(*                  restart option activated since                         *)
(*   expected       the session state set by the latest-submitted call     *)
(*                  among the calls whose response was processed and the   *)
(*                  restart activations (turn, data), and the latest-      *)
(*                  submitted call whose reply was appended (replied)      *)
(***************************************************************************)
VARIABLES loaded, userData, inputDisabled, chat, calls, pre, last, ended, expected

vars == <<loaded, userData, inputDisabled, chat, calls, pre, last, ended, expected>>

Diagnostics == {TimeoutText, NetworkText, GenericText, NoBackendText}

NumDiag(c) == Cardinality({i \in 1..Len(c) : c[i].cls = "bot" /\ c[i].text \in Diagnostics})

NumOptions(c) == Cardinality({i \in 1..Len(c) : c[i].cls = "options"})

\* The enabled option buttons, each named by the call that rendered its
\* container and its position in the container.
EnabledButtons(c) ==
    UNION {{<<c[i].turn, j>> : j \in {k \in 1..Len(c[i].buttons) : ~c[i].buttons[k].disabled}}
             : i \in 1..Len(c)}

NumNotices(c) == Cardinality({i \in 1..Len(c) : c[i].cls = "error"})

\* The button is the restart option rendered for conversation_end.
IsRestartOption(b) == b.entry = RestartOptions.a[1]

\* The calls whose transport call has not resolved yet.
Pending == {t \in 1..Len(calls) : calls[t].pc # "done"}

NoPre ==
    [src |-> "none", button |-> <<0, 0>>, userData |-> EmptyMap,
     inputDisabled |-> FALSE, enabled |-> {}]

Snapshot ==
    [userData |-> userData, inputDisabled |-> inputDisabled,
     enabled |-> EnabledButtons(chat), options |-> NumOptions(chat),
     notices |-> NumNotices(chat), pending |-> Cardinality(Pending)]

NoLast ==
    [ev |-> "none", turn |-> 0, pre |-> NoPre, outcome |-> "none", body |-> NoBody,
     diags |-> 0, replies |-> 0,
     before |-> [userData |-> EmptyMap, inputDisabled |-> FALSE, enabled |-> {},
                 options |-> 0, notices |-> 0, pending |-> 0]]

DoneCall(boot) == [pc |-> "done", message |-> "", request |-> EmptyMap, boot |-> boot]

Init ==
    /\ loaded = FALSE
    /\ userData = InitUserData
    /\ inputDisabled = FALSE
    /\ chat = <<>>
    /\ calls = <<>>
    /\ pre = <<>>
    /\ last = NoLast
    /\ ended = FALSE
    /\ expected = [turn |-> 0, data |-> InitUserData, replied |-> 0]

\* A new sendMessage(message) call runs up to its fetch, from transcript c.
Call(message, src, button, boot, c) ==
    LET t == Len(calls) + 1
        p == [src |-> src, button |-> button, userData |-> userData,
              inputDisabled |-> inputDisabled, enabled |-> EnabledButtons(chat)]
    IN
    /\ chat' = sendStart(c, message, t)
    /\ calls' = Append(calls, [pc |-> "fetch", message |-> message,
                               request |-> userData, boot |-> boot])
    /\ pre' = Append(pre, p)
    /\ last' = [NoLast EXCEPT !.ev = "submit", !.turn = t, !.pre = p, !.before = Snapshot]

\* window load: initChat and checkBackendConnection up to the await.
InitChat ==
    /\ ~loaded
    /\ loaded' = TRUE
    /\ Call(Sentinel, "boot", <<0, 0>>, TRUE,
            addBotMessage(addBotMessage(chat, WelcomeMsg), LoadingMsg))
    /\ UNCHANGED <<userData, inputDisabled, ended, expected>>

\* Click on the send button, or Enter in the input field, once the page has
\* loaded.  A disabled control dispatches no event; a blank input is ignored.
SubmitTextUpTo(message, max) ==
    /\ loaded
    /\ ~inputDisabled
    /\ message # ""
    /\ Len(calls) < max
    /\ Call(message, "text", <<0, 0>>, FALSE, chat)
    /\ UNCHANGED <<loaded, userData, inputDisabled, ended, expected>>

SubmitText(message) == SubmitTextUpTo(message, MaxTurns)

\* Click on the enabled option button j of the container chat[i]: the listener
\* of addOptionsToChat, then the restart listener if the button has one.
ClickOptionUpTo(i, j, max) ==
    /\ loaded
    /\ chat[i].cls = "options"
    /\ ~chat[i].buttons[j].disabled
    /\ Len(calls) < max
    /\ LET b == chat[i].buttons[j]
           c1 == [chat EXCEPT ![i].buttons =
                     [k \in 1..Len(chat[i].buttons) |->
                         [chat[i].buttons[k] EXCEPT !.selected = (k = j)]]]
       IN /\ Call(Value(b.entry), IF IsRestartOption(b) THEN "restart" ELSE "option",
                  <<chat[i].turn, j>>, FALSE, c1)
          /\ userData' = IF b.restart THEN InitUserData ELSE userData
          /\ inputDisabled' = IF b.restart THEN FALSE ELSE inputDisabled
          /\ ended' = IF IsRestartOption(b) THEN FALSE ELSE ended
          /\ expected' = IF IsRestartOption(b)
                          THEN [expected EXCEPT !.turn = Len(calls) + 1,
                                                !.data = InitUserData]
                          ELSE expected
    /\ UNCHANGED loaded

ClickOption(i, j) == ClickOptionUpTo(i, j, MaxTurns)

\* The call t ends with transcript c: its promise settles, and for the
\* bootstrap call checkBackendConnection resumes in the same microtask run.
EndCall(t, c, outcome, body, replies) ==
    /\ chat' = IF calls[t].boot THEN RemoveLoading(c) ELSE c
    /\ calls' = [calls EXCEPT ![t] = DoneCall(calls[t].boot)]
    /\ pre' = [pre EXCEPT ![t] = NoPre]
    /\ last' = [ev |-> "end", turn |-> t, pre |-> pre[t], outcome |-> outcome,
                body |-> body, diags |-> NumDiag(c) - NumDiag(chat),
                replies |-> replies, before |-> Snapshot]

\* An error thrown in the try block of call t when the transcript is c.
Throw(t, c, error, outcome, body, replies) ==
    EndCall(t, catchBlock(c, error), outcome, body, replies)

\* The fetch of call t rejects: the 10 s AbortSignal fires, or the network fails.
FetchReject(t, error) ==
    /\ calls[t].pc = "fetch"
    /\ Throw(t, chat, error,
             IF error = TimeoutError THEN "Timeout" ELSE "NetworkUnreachable", NoBody, 0)
    /\ UNCHANGED <<loaded, userData, inputDisabled, ended, expected>>

\* The fetch of call t resolves with a response: chatMessages.removeChild of
\* the call's own typing indicator (a NotFoundError if it is no longer a
\* child), then the response.ok test.
FetchResolve(t, ok) ==
    /\ calls[t].pc = "fetch"
    /\ LET own == {i \in 1..Len(chat) : chat[i].cls = "typing" /\ chat[i].turn = t} IN
       IF own = {}
       THEN Throw(t, chat, NotFoundError,
                  IF ok THEN "TypingGone" ELSE "HttpStatusError", NoBody, 0)
       ELSE LET c1 == RemoveAt(chat, CHOOSE i \in own : TRUE) IN
            IF ~ok THEN Throw(t, c1, HttpError, "HttpStatusError", NoBody, 0)
            ELSE /\ chat' = c1
                 /\ calls' = [calls EXCEPT ![t].pc = "json"]
                 /\ last' = [NoLast EXCEPT !.ev = "response", !.turn = t,
                                           !.pre = pre[t], !.before = Snapshot]
                 /\ UNCHANGED pre
    /\ UNCHANGED <<loaded, userData, inputDisabled, ended, expected>>

\* response.json() of call t rejects: the body is not JSON, or the signal
\* aborts the body read.
JsonReject(t, error) ==
    /\ calls[t].pc = "json"
    /\ Throw(t, chat, error,
             IF error = TimeoutError THEN "Timeout" ELSE "BadJson", NoBody, 0)
    /\ UNCHANGED <<loaded, userData, inputDisabled, ended, expected>>

\* response.json() of call t resolves with body: the reply is shown, userData
\* replaced and the action dispatched; an error thrown by handleAction is
\* caught by the catch block.
JsonResolve(t, body) ==
    /\ calls[t].pc = "json"
    /\ LET c1 == addBotMessage(chat, TextContent(body.response))
           r == handleAction(c1, inputDisabled, body.action, body.data, t)
       IN /\ userData' = NewUserData(userData, body.data)
          /\ inputDisabled' = r.inputDisabled
          /\ IF r.threw THEN Throw(t, r.chat, ForEachTypeError, "DispatchThrew", body, 1)
             ELSE EndCall(t, r.chat, "ok", body, 1)
    /\ ended' = (ended \/ body.action = "conversation_end")
    /\ expected' = [turn |-> IF t >= expected.turn THEN t ELSE expected.turn,
                    data |-> IF t >= expected.turn
                             THEN (IF body.data.nil THEN EmptyMap ELSE body.data.m)
                             ELSE expected.data,
                    replied |-> IF t >= expected.replied THEN t ELSE expected.replied]
    /\ UNCHANGED loaded

Next ==
    \/ InitChat
    \/ \E message \in FreeTexts : SubmitText(message)
    \/ \E i \in 1..Len(chat) : \E j \in 1..Len(chat[i].buttons) : ClickOption(i, j)
    \/ \E t \in 1..Len(calls) : \E error \in {TimeoutError, FetchFailed} : FetchReject(t, error)
    \/ \E t \in 1..Len(calls) : \E ok \in BOOLEAN : FetchResolve(t, ok)
    \/ \E t \in 1..Len(calls) : \E error \in {JsonSyntaxError, TimeoutError} : JsonReject(t, error)
    \/ \E t \in 1..Len(calls) : \E body \in Bodies : JsonResolve(t, body)

Spec == Init /\ [][Next]_vars

\* The same program with a user who waits for the reply before submitting the
\* next turn: every behaviour of SpecSeq is a behaviour of Spec.
SubmitTextSeq(message) == Pending = {} /\ SubmitText(message)

ClickOptionSeq(i, j) == Pending = {} /\ ClickOption(i, j)

NextSeq ==
    \/ InitChat
    \/ \E message \in FreeTexts : SubmitTextSeq(message)
    \/ \E i \in 1..Len(chat) : \E j \in 1..Len(chat[i].buttons) : ClickOptionSeq(i, j)
    \/ \E t \in 1..Len(calls) : \E error \in {TimeoutError, FetchFailed} : FetchReject(t, error)
    \/ \E t \in 1..Len(calls) : \E ok \in BOOLEAN : FetchResolve(t, ok)
    \/ \E t \in 1..Len(calls) : \E error \in {JsonSyntaxError, TimeoutError} : JsonReject(t, error)
    \/ \E t \in 1..Len(calls) : \E body \in Bodies : JsonResolve(t, body)

SpecSeq == Init /\ [][NextSeq]_vars

(***************************************************************************)
(* Properties.                                                             *)
(***************************************************************************)

\* The latest step ended a call, and ended it in one of the given ways.
Ended(outcomes) == last.ev = "end" /\ last.outcome \in outcomes

TransportFailures == {"Timeout", "NetworkUnreachable", "HttpStatusError"}

\* A 2xx body that lacks the reply text or the state payload.
Malformed(body) == body.response.t = "absent" \/ body.data.nil

\* The state payload of a processed body, the empty mapping when it has none.
Payload(body) == IF body.data.nil THEN EmptyMap ELSE body.data.m

\* C1: in every reachable state at most one transport call is in flight; a
\* turn submitted while an earlier call is unresolved sends no second request.
C1_AtMostOneInFlight == Cardinality(Pending) <= 1

\* C2: after a successfully completed turn the stored session state equals
\* exactly the state payload of that turn's response (the empty mapping when
\* it carries none); nothing is merged in or carried over.
C2_StateReplacedWholesale == Ended({"ok"}) => userData = Payload(last.body)

\* A turn succeeded whose payload lacks a key the session state held before.
C2_Witness ==
    /\ Ended({"ok"})
    /\ last.before.userData.options # JAbsent
    /\ Payload(last.body).options = JAbsent

\* C3: when a turn submitted by free text or by a non-restart option fails
\* with Timeout, NetworkUnreachable or HttpStatusError, the session state
\* after the failure is the session state before the turn was submitted.
C3_FailureKeepsSessionState ==
    (Ended(TransportFailures) /\ last.pre.src \in {"text", "option"})
        => userData = last.pre.userData

\* The call's own typing indicator is still in the transcript.
OwnTypingShown(t) == \E i \in 1..Len(chat) : chat[i].cls = "typing" /\ chat[i].turn = t

\* The latest step ended a call in failure: a transport failure, or a 2xx
\* response whose body is no JSON or lacks a required field.
FailedTurn ==
    \/ Ended(TransportFailures \cup {"BadJson"})
    \/ Ended({"ok", "DispatchThrew"}) /\ Malformed(last.body)

\* C4: every failed turn (Timeout, NetworkUnreachable, HttpStatusError or
\* MalformedResponse, the bootstrap turn included) appends exactly one
\* diagnostic message, and its typing indicator is gone afterwards.
C4_OneDiagnosticPerFailure ==
    FailedTurn => (last.diags = 1 /\ ~OwnTypingShown(last.turn))

\* C5: once a conversation_end response is processed free-text submission is
\* disabled and stays so until the restart option is activated; activating it
\* re-enables free text and sets the session state to {state: null}.
C5_EndDisablesUntilRestart ==
    /\ ended => inputDisabled
    /\ (last.ev = "submit" /\ last.pre.src = "restart")
           => (~inputDisabled /\ userData = InitUserData)

\* The restart option was activated in an ended conversation.
C5_Witness ==
    /\ last.ev = "submit"
    /\ last.pre.src = "restart"
    /\ last.before.inputDisabled
    /\ last.before.userData # InitUserData

\* C6: while a transport call is pending every displayed option button is
\* disabled.
C6_ButtonsDisabledWhilePending == Pending # {} => EnabledButtons(chat) = {}

\* C7: a failed turn leaves the interaction mode as it was immediately before
\* the turn was submitted: the same option buttons enabled, the same free-text
\* status.
C7_FailureKeepsMode ==
    Ended(TransportFailures \cup {"BadJson"})
        => (EnabledButtons(chat) = last.pre.enabled
            /\ inputDisabled = last.pre.inputDisabled)

\* C8: a 2xx response whose body lacks the reply text or the state payload is
\* handled as a failure: one diagnostic, no bot reply, session state unchanged.
C8_MalformedIsFailure ==
    (Ended({"ok", "DispatchThrew"}) /\ Malformed(last.body))
        => (last.diags = 1 /\ last.replies = 0 /\ userData = last.before.userData)

\* C9: show_options whose data.options is present but not a sequence is
\* treated as options absent: no option rendered, nothing thrown, no
\* diagnostic for that turn.
C9_NonSequenceOptionsIgnored ==
    (/\ Ended({"ok", "DispatchThrew"})
     /\ last.body.action = "show_options"
     /\ ~last.body.data.nil
     /\ last.body.data.m.options.t \notin {"absent", "arr"})
        => (/\ last.outcome = "ok"
            /\ last.diags = 0
            /\ NumOptions(chat) = last.before.options)

RecognizedActions ==
    {"offer_booking", "show_existing_appointment", "show_appointments",
     "confirm_cancellation", "show_options", "request_department",
     "request_doctor", "request_date", "request_time", "conversation_end"}

\* C10: an action tag outside the vocabulary, or an absent action, with any
\* data payload yields free text: no option button and no notice is added,
\* free-text input stays as it was, the dispatcher leaves the session state
\* at the response's payload, and nothing is thrown.
C10_UnknownActionIsFreeText ==
    (Ended({"ok", "DispatchThrew"}) /\ last.body.action \notin RecognizedActions)
        => (/\ last.outcome = "ok"
            /\ last.diags = 0
            /\ NumOptions(chat) = last.before.options
            /\ NumNotices(chat) = last.before.notices
            /\ EnabledButtons(chat) = last.before.enabled
            /\ inputDisabled = last.before.inputDisabled
            /\ userData = Payload(last.body))

\* An unknown tag was dispatched with a payload that carries an options array.
C10_Witness ==
    /\ Ended({"ok"})
    /\ last.body.action = "foo"
    /\ IsArray(Payload(last.body).options)

\* The positions of the option containers rendered by call t.
RenderedBy(t) == {i \in 1..Len(chat) : chat[i].cls = "options" /\ chat[i].turn = t}

\* The values and the labels of the buttons of the container chat[i], in order.
ValuesAt(i) == [j \in 1..Len(chat[i].buttons) |-> Value(chat[i].buttons[j].entry)]

LabelsAt(i) == [j \in 1..Len(chat[i].buttons) |-> Label(chat[i].buttons[j].entry)]

\* C11: action offer_booking, whatever the data payload, yields exactly two
\* options, in order, with values "Yes" and "No".
C11_OfferBookingYesNo ==
    (Ended({"ok", "DispatchThrew"}) /\ last.body.action = "offer_booking")
        => (/\ last.outcome = "ok"
            /\ NumOptions(chat) = last.before.options + 1
            /\ Cardinality(RenderedBy(last.turn)) = 1
            /\ \A i \in RenderedBy(last.turn) : ValuesAt(i) = <<"Yes", "No">>)

\* offer_booking was dispatched with a payload whose options are a mapping and
\* which carries doctors.
C11_Witness ==
    /\ Ended({"ok"})
    /\ last.body.action = "offer_booking"
    /\ Payload(last.body).options = JMap
    /\ IsArray(Payload(last.body).doctors)

\* The label and the value the claim C12 gives an entry: its text (its value)
\* if it has one, the empty string included, and otherwise the entry itself.
TextOrEntry(e) == IF e.kind = "obj" /\ e.text # Absent THEN e.text ELSE Label(e)

ValueOrEntry(e) == IF e.kind = "obj" /\ e.value # Absent THEN e.value ELSE Value(e)

\* C12: action show_options with data.options a sequence yields one option
\* per entry, in the same order; an option's label is the entry's text if it
\* has one and otherwise the entry itself, and the value it sends is the
\* entry's value if it has one and otherwise the entry itself, also for an
\* empty text or value.
C12_ShowOptionsCoercion ==
    (/\ Ended({"ok", "DispatchThrew"})
     /\ last.body.action = "show_options"
     /\ IsArray(Payload(last.body).options))
        => LET entries == Payload(last.body).options.a IN
           /\ last.outcome = "ok"
           /\ Cardinality(RenderedBy(last.turn)) = 1
           /\ \A i \in RenderedBy(last.turn) :
                /\ LabelsAt(i) = [j \in 1..Len(entries) |-> TextOrEntry(entries[j])]
                /\ ValuesAt(i) = [j \in 1..Len(entries) |-> ValueOrEntry(entries[j])]

\* The .bot-message elements of the transcript that are not typing
\* indicators, as positions in document order.
BotMessages == Positions(chat, {"bot"}, 1)

\* The bootstrap call is the first call, sends the sentinel and shows no user
\* message.
BootstrapSilent ==
    (last.ev = "submit" /\ last.pre.src = "boot")
        => (/\ last.turn = 1
            /\ calls[1].message = Sentinel
            /\ calls[1].request = InitUserData
            /\ \A i \in 1..Len(chat) : chat[i].cls # "user")

Resolve(t) ==
    /\ t \in 1..Len(calls)
    /\ \/ \E error \in {TimeoutError, FetchFailed} : FetchReject(t, error)
       \/ \E ok \in BOOLEAN : FetchResolve(t, ok)
       \/ \E error \in {JsonSyntaxError, TimeoutError} : JsonReject(t, error)
       \/ \E body \in Bodies : JsonResolve(t, body)

SpecLive == Spec /\ \A t \in 1..MaxTurns : WF_vars(Resolve(t))

\* Every call that is pending is resolved later.
EveryCallResolves == \A t \in 1..MaxTurns : (t \in Pending) ~> (t \notin Pending)

\* Once a call has resolved its typing indicator is gone, and free-text input
\* is enabled unless the conversation has ended.
ResolvedCallUnblocks ==
    last.ev = "end" => (~OwnTypingShown(last.turn) /\ (inputDisabled => ended))

\* C14: every submitted turn eventually resolves, in a processed reply or a
\* signaled failure; after it resolves its working indicator is gone and
\* free-text input is available again unless the conversation has ended.
C14_EveryTurnResolves == EveryCallResolves /\ []ResolvedCallUnblocks

\* C15: action request_doctor with data.doctors a sequence yields exactly
\* those doctors as options, in order; otherwise (data absent, doctors absent
\* or not a sequence) it yields no option button and one inline error notice,
\* and free-text submission stays as it was.
C15_RequestDoctor ==
    (Ended({"ok", "DispatchThrew"}) /\ last.body.action = "request_doctor")
        => LET doctors == Payload(last.body).doctors IN
           /\ last.outcome = "ok"
           /\ last.diags = 0
           /\ inputDisabled = last.before.inputDisabled
           /\ IF doctors.t = "arr"
              THEN /\ Cardinality(RenderedBy(last.turn)) = 1
                   /\ \A i \in RenderedBy(last.turn) :
                        [j \in 1..Len(chat[i].buttons) |-> chat[i].buttons[j].entry]
                            = doctors.a
                   /\ NumNotices(chat) = last.before.notices
              ELSE /\ RenderedBy(last.turn) = {}
                   /\ NumOptions(chat) = last.before.options
                   /\ NumNotices(chat) = last.before.notices + 1
                   /\ chat[Len(chat)].text = NoDepartmentText

\* request_doctor was dispatched with doctors that are a mapping.
C15_Witness ==
    /\ Ended({"ok"})
    /\ last.body.action = "request_doctor"
    /\ Payload(last.body).doctors = JMap

\* C16: the request of the restart turn carries the empty initial session
\* state {state: null} as user_data: the reset takes effect before the request
\* is built.
C16_RestartSendsInitialState ==
    (last.ev = "submit" /\ last.pre.src = "restart")
        => calls[last.turn].request = InitUserData

\* C17: bot replies are appended in the order in which their turns were
\* submitted, and once every call has resolved the session state is the one
\* set by the latest-submitted turn whose response was processed (or by a
\* later restart), whatever order the responses arrive in.
C17_TurnsNotReordered ==
    /\ Ended({"ok", "DispatchThrew"}) => expected.replied = last.turn
    /\ (last.ev = "end" /\ Pending = {}) => userData = expected.data

\* A body with the required fields whose option payloads, where present, are
\* sequences.
WellFormed(body) ==
    /\ ~Malformed(body)
    /\ \A k \in {"options", "doctors", "available_dates", "available_slots"} :
          Payload(body)[k].t \in {"absent", "arr"}

\* C18: every turn whose call returns a well-formed 2xx response is processed
\* as a success, whatever happens to other turns: its reply is appended, the
\* session state replaced by its payload, and no diagnostic appended for it.
\* (A call that ends as "TypingGone" got a 2xx response and failed on the
\* removal of its typing indicator, before the body was read.)
C18_SuccessIndependentOfOtherTurns ==
    /\ ~Ended({"TypingGone"})
    /\ (Ended({"ok", "DispatchThrew"}) /\ WellFormed(last.body))
           => (/\ last.outcome = "ok"
               /\ last.diags = 0
               /\ userData = Payload(last.body)
               /\ Len(BotMessages) > 0
               /\ chat[BotMessages[Len(BotMessages)]].text = TextContent(last.body.response))

\* The same program followed for MaxTurnsDeep calls, with a server that sends
\* only three bodies and a user who types only "hi": every behaviour of
\* SpecDeep is a behaviour of the program.
DeepBodies ==
    { Body(JStr("r"), Absent, Data(S1)),
      Body(JStr("r"), "offer_booking", Data(S2)),
      Body(JStr("r"), "conversation_end", Data(S2)) }

SubmitTextDeep == SubmitTextUpTo("hi", MaxTurnsDeep)

ClickOptionDeep(i, j) == ClickOptionUpTo(i, j, MaxTurnsDeep)

NextDeep ==
    \/ InitChat
    \/ SubmitTextDeep
    \/ \E i \in 1..Len(chat) : \E j \in 1..Len(chat[i].buttons) : ClickOptionDeep(i, j)
    \/ \E t \in 1..Len(calls) : \E error \in {TimeoutError, FetchFailed} : FetchReject(t, error)
    \/ \E t \in 1..Len(calls) : \E ok \in BOOLEAN : FetchResolve(t, ok)
    \/ \E t \in 1..Len(calls) : \E error \in {JsonSyntaxError, TimeoutError} : JsonReject(t, error)
    \/ \E t \in 1..Len(calls) : \E body \in DeepBodies : JsonResolve(t, body)

SpecDeep == Init /\ [][NextDeep]_vars

\* C19: whenever no transport call is in flight the user has an enabled way to
\* submit a turn: free-text input is enabled or some displayed option button
\* (a restart button included) is enabled.
C19_AlwaysAnAffordance ==
    (loaded /\ Pending = {}) => (~inputDisabled \/ EnabledButtons(chat) # {})

\* The displayed option buttons that are enabled and are not a restart option.
EnabledOtherButtons ==
    {<<i, j>> \in (1..Len(chat)) \X (1..3) :
        /\ j <= Len(chat[i].buttons)
        /\ ~chat[i].buttons[j].disabled
        /\ ~IsRestartOption(chat[i].buttons[j])}

\* C20: while the conversation is ended the only enabled affordance is a
\* restart option: free-text input is disabled and no other option button is
\* enabled.
C20_OnlyRestartWhileEnded == ended => (inputDisabled /\ EnabledOtherButtons = {})

====
